---- MODULE Spec2Model ----
(***************************************************************************)
(* Session lifecycle layer of the Docker code-interpreter MCP server       *)
(* (src/server.py): the session registry, the current-session pointer and  *)
(* its persisted marker, _SessionContext, the tool handlers and the        *)
(* janitor.  Handlers run on threads; every `with _lock:` block is one     *)
(* atomic step, every stretch of code between two lock blocks is one step. *)
(* The container (directories, .last_used files, the .current marker) is   *)
(* modelled after the collaborator the server talks to; its calls may      *)
(* fail.                                                                   *)
(***************************************************************************)
EXTENDS Integers, Sequences, FiniteSets, TLC

\* ------------------------------------------------------------- bounds
MaxIds == 3
MaxTime == 3
NumThreads == 2
MaxResets == 1
MaxCalls == 3
MaxSessionMax == 2
\* calls in a behaviour of the scenario specification
ScenarioCalls == 4
\* the longest path the path checks are given
MaxPathLen == 5

\* ids that _new_session_id can issue; 0 stands for None / ''
Ids == 1..MaxIds
NoId == 0
\* values of time.time()
Time == 1..MaxTime
\* absent file / absent directory
Absent == -1

Janitor == 0
Handlers == 1..NumThreads
Procs == {Janitor} \cup Handlers

VARIABLES
    SESSION_MAX,            \* src/server.py:67
    SESSION_TTL_SECONDS,    \* src/server.py:63
    _sessions,              \* dict id -> (last_used, created), in insertion order
    _current_session_id,    \* 0 = None
    dirs,                   \* container: ids whose /workspace/sessions/<id> exists
    last_used_file,         \* container: id -> content of <dir>/.last_used, or Absent
    current_file,           \* container: content of /workspace/sessions/.current, 0 = no file
    reset_called,           \* number of interpreter.reset() calls
    clock,                  \* time.time()
    nextId,                 \* next id _new_session_id issues
    calls_left,             \* number of handler calls still to be made
    _janitor_started,       \* src/server.py:78
    janitor_threads,        \* number of threads started on _loop
    closed,                 \* ids close_current_session has closed in this process
    pc,                     \* per thread: position in the code
    stack,                  \* per thread: return positions of the calls in progress
    loc                     \* per thread: local variables

vars == <<SESSION_MAX, SESSION_TTL_SECONDS, _sessions, _current_session_id, dirs,
          last_used_file, current_file, reset_called, clock,
          nextId, calls_left, _janitor_started, janitor_threads, closed, pc, stack, loc>>

config == <<SESSION_MAX, SESSION_TTL_SECONDS>>
registry == <<_sessions, _current_session_id>>
container == <<dirs, last_used_file, current_file, reset_called>>
janitor == <<_janitor_started, janitor_threads>>

\* ------------------------------------------------------------- the dict _sessions
Keys(s) == {s[i].id : i \in DOMAIN s}

Has(s, id) == id \in Keys(s)

Rec(s, id) == s[CHOOSE i \in DOMAIN s : s[i].id = id]

\* _sessions[id] = (last, created): an existing key keeps its position
Put(s, id, last, created) ==
    IF Has(s, id)
    THEN [i \in DOMAIN s |-> IF s[i].id = id
                             THEN [id |-> id, last |-> last, created |-> created]
                             ELSE s[i]]
    ELSE Append(s, [id |-> id, last |-> last, created |-> created])

\* _sessions.pop(id, None)
RemoveKey(s, id) ==
    LET Keep(r) == r.id # id
    IN SelectSeq(s, Keep)

RECURSIVE PopAll(_, _)
PopAll(s, ids) ==
    IF ids = <<>> THEN s ELSE PopAll(RemoveKey(s, Head(ids)), Tail(ids))

\* insert r into the sorted sequence srt after every element whose key is <= r's
RECURSIVE InsertSorted(_, _)
InsertSorted(srt, r) ==
    IF srt = <<>> THEN <<r>>
    ELSE IF Head(srt).last <= r.last
         THEN <<Head(srt)>> \o InsertSorted(Tail(srt), r)
         ELSE <<r>> \o srt

\* line 235 with the index of the created time, key=lambda kv: kv[1][1]
RECURSIVE InsertSortedByCreated(_, _)
InsertSortedByCreated(srt, r) ==
    IF srt = <<>> THEN <<r>>
    ELSE IF Head(srt).created <= r.created
         THEN <<Head(srt)>> \o InsertSortedByCreated(Tail(srt), r)
         ELSE <<r>> \o srt

RECURSIVE SortedByCreated(_)
SortedByCreated(s) ==
    IF s = <<>> THEN <<>>
    ELSE InsertSortedByCreated(SortedByCreated(SubSeq(s, 1, Len(s) - 1)), s[Len(s)])

\* sorted(_sessions.items(), key=lambda kv: kv[1][0]): stable, ascending last_used
RECURSIVE SortedByLastUsed(_)
SortedByLastUsed(s) ==
    IF s = <<>> THEN <<>>
    ELSE InsertSorted(SortedByLastUsed(SubSeq(s, 1, Len(s) - 1)), s[Len(s)])

IdsOf(s) == [i \in DOMAIN s |-> s[i].id]

SeqToSet(q) == {q[i] : i \in DOMAIN q}

\* line 234 written as `len(_sessions) > SESSION_MAX + 1`
ExcessOffByOne(n, max) == IF n > max + 1 THEN n - max ELSE 0

\* how many records _create_session evicts from a table of n entries
Excess(n, max) == IF n > max THEN n - max ELSE 0

\* to_remove of _create_session: the first len - SESSION_MAX sorted records
ToRemove(s, max) ==
    SubSeq(SortedByLastUsed(s), 1, Excess(Len(s), max))

\* line 257 written with >=
ExpiredAtBoundary(s, now, ttl) ==
    LET Old(r) == now - r.last >= ttl
    IN IdsOf(SelectSeq(s, Old))

\* line 257 measuring from the creation time
ExpiredSinceCreation(s, now, ttl) ==
    LET Old(r) == now - r.created > ttl
    IN IdsOf(SelectSeq(s, Old))

\* ids the sweep collects: now - last_used > SESSION_TTL_SECONDS, in dict order
Expired(s, now, ttl) ==
    LET Old(r) == now - r.last > ttl
    IN IdsOf(SelectSeq(s, Old))

\* ------------------------------------------------------------- the container
\* _read_session_last_used: the values it can return.  The .last_used file when it
\* exists; else the mtime of the directory, which the code run in the session moves,
\* so any time up to now; else None.
ReadLastUsed(id) ==
    IF last_used_file[id] # Absent THEN {last_used_file[id]}
    ELSE IF id \in dirs THEN 1..clock
    ELSE {Absent}

\* ------------------------------------------------------------- paths
\* a path is a string, a sequence of characters
Chars == {"/", ".", "a"}

AllPaths == UNION {[1..n -> Chars] : n \in 0..MaxPathLen}

DotDot == <<".", ".">>

\* str.split('/')
RECURSIVE Split(_)
Split(path) ==
    IF path = <<>> THEN << <<>> >>
    ELSE LET rest == Split(Tail(path))
         IN IF Head(path) = "/"
            THEN << <<>> >> \o rest
            ELSE << <<Head(path)>> \o Head(rest) >> \o Tail(rest)

\* PurePosixPath(path).is_absolute()
is_absolute(path) == path # <<>> /\ Head(path) = "/"

\* PurePosixPath(path).parts without the root: empty and '.' segments are dropped
Parts(path) ==
    LET Named(seg) == seg # <<>> /\ seg # <<".">>
    IN SelectSeq(Split(path), Named)

\* line 371 looking at the first part only
LeadingDotDotOnly(path) ==
    ~is_absolute(path) /\ (Parts(path) = <<>> \/ Head(Parts(path)) # DotDot)

\* line 371 left out
EveryPathAllowed(path) == TRUE

\* _ensure_relative_posix lines 368-372: TRUE when it returns, FALSE when it raises
_ensure_relative_posix(path) ==
    ~(is_absolute(path) \/ \E i \in DOMAIN Parts(path) : Parts(path)[i] = DotDot)

\* DockerInterpreter.host_workdir, resolved: the directory /a
host_workdir == << <<"a">> >>

\* Path.resolve() on the parts of an absolute path: '..' goes up, and stays at the root
RECURSIVE Normalize(_, _)
Normalize(parts, acc) ==
    IF parts = <<>> THEN acc
    ELSE IF Head(parts) = DotDot
         THEN Normalize(Tail(parts), IF acc = <<>> THEN acc ELSE SubSeq(acc, 1, Len(acc) - 1))
         ELSE Normalize(Tail(parts), Append(acc, Head(parts)))

\* (self.host_workdir / src).resolve(): an absolute src replaces the working directory
HostResolve(src) ==
    Normalize(IF is_absolute(src) THEN Parts(src) ELSE host_workdir \o Parts(src), <<>>)

\* Path.parents
Parents(p) == {SubSeq(p, 1, k) : k \in 0..(Len(p) - 1)}

\* the test of lines 135 and 145 without its second half
UnderWorkdirParentsOnly(p) == host_workdir \in Parents(p)

\* the test of lines 135 and 145: the path is host_workdir or below it
UnderWorkdir(p) == host_workdir \in Parents(p) \/ p = host_workdir

\* the handlers that take a container path
FileOps == {"run_file", "cp_in", "cp_out", "edit_file"}

\* the container paths the handlers are called with: a file name, the empty path, a
\* path that climbs out, an absolute path
CallerPaths == {<<"a">>, <<>>, <<".", ".", "/", "a">>, <<"/", "a">>}

\* os.path.basename(local_path) of the host paths cp_in is called with
Basenames == {<<"a">>, DotDot}

\* ------------------------------------------------------------- threads
LocInit ==
    [op |-> "none", user |-> NoId, policy |-> "none", sid |-> NoId, owns |-> FALSE,
     new |-> NoId, now |-> 0, arg |-> NoId, cur |-> NoId, psid |-> NoId,
     list |-> <<>>, i |-> 0, seen |-> <<>>, body_raised |-> FALSE, raised |-> FALSE, ret |-> NoId,
     remove_dir_calls |-> {}, last_used |-> Absent, path |-> <<>>, passed |-> <<>>,
     cmds |-> <<>>]

OpLoc(op) == [LocInit EXCEPT !.op = op]

Idle(t) == pc[t] = "idle"

\* the handler of thread t, called op, has returned
Returned(t, op) == pc[t] = "done" /\ loc[t].op = op /\ ~loc[t].raised

\* the handler of thread t, called op, has raised
Raised(t, op) == pc[t] = "done" /\ loc[t].op = op /\ loc[t].raised

Goto(t, l) ==
    /\ pc' = [pc EXCEPT ![t] = l]
    /\ UNCHANGED stack

\* call the procedure that starts at l and continue at r when it returns
CallP(t, l, r) ==
    /\ pc' = [pc EXCEPT ![t] = l]
    /\ stack' = [stack EXCEPT ![t] = <<r>> \o @]

Upd(t, l) == loc' = [loc EXCEPT ![t] = l]

\* the handler has returned or raised with locals l: its frame stays until the
\* caller has taken the result
Done(t, l) ==
    /\ pc' = [pc EXCEPT ![t] = "done"]
    /\ stack' = [stack EXCEPT ![t] = <<>>]
    /\ Upd(t, l)

\* return from the procedure in progress with locals l
Ret(t, l) ==
    IF Head(stack[t]) = "done"
    THEN Done(t, l)
    ELSE /\ pc' = [pc EXCEPT ![t] = Head(stack[t])]
         /\ stack' = [stack EXCEPT ![t] = Tail(@)]
         /\ Upd(t, l)

\* an exception leaves _create_session: _get_current_session catches it when the call
\* came from _load_persisted_current and returns None; otherwise the handler fails
Raise(t, l) ==
    IF stack[t] # <<>> /\ Head(stack[t]) = "load_set"
    THEN /\ pc' = [pc EXCEPT ![t] = stack[t][2]]
         /\ stack' = [stack EXCEPT ![t] = Tail(Tail(@))]
         /\ Upd(t, [l EXCEPT !.cur = NoId])
    ELSE Done(t, [l EXCEPT !.raised = TRUE])

Init ==
    /\ SESSION_MAX \in 1..MaxSessionMax
    /\ SESSION_TTL_SECONDS = 1
    /\ _sessions = <<>>
    /\ _current_session_id = NoId
    /\ dirs = {}
    /\ last_used_file = [i \in Ids |-> Absent]
    /\ current_file = NoId
    /\ reset_called = 0
    /\ clock = 1
    /\ nextId = 1
    /\ _janitor_started = TRUE
    /\ janitor_threads = 1
    /\ closed = {}
    /\ calls_left = MaxCalls
    /\ pc = [t \in Procs |-> IF t = Janitor THEN "sleep" ELSE "idle"]
    /\ stack = [t \in Procs |-> <<>>]
    /\ loc = [t \in Procs |-> LocInit]

\* ------------------------------------------------------------- _create_session
\* _create_session registering the session before it makes the directory
CreateMkdirAfterInsert(t) ==
    /\ pc[t] = "create_mkdir"
    /\ nextId <= MaxIds
    /\ \/ /\ dirs' = dirs \cup {nextId}
          /\ nextId' = nextId + 1
          /\ Upd(t, [loc[t] EXCEPT !.new = nextId, !.now = clock])
          /\ Goto(t, "create_lock")
          /\ UNCHANGED _sessions
       \/ /\ _sessions' = Put(_sessions, nextId, clock, clock)
          /\ Raise(t, loc[t])
          /\ UNCHANGED <<dirs, nextId>>
    /\ UNCHANGED <<config, closed, janitor, _current_session_id, last_used_file, current_file, reset_called,
                   clock, calls_left>>

\* lines 227-231: new id, make_dir (a failure propagates), now = time.time()
CreateMkdir(t) ==
    /\ pc[t] = "create_mkdir"
    /\ nextId <= MaxIds
    /\ \/ /\ dirs' = dirs \cup {nextId}
          /\ nextId' = nextId + 1
          /\ Upd(t, [loc[t] EXCEPT !.new = nextId, !.now = clock])
          /\ Goto(t, "create_lock")
       \/ /\ Raise(t, loc[t])
          /\ UNCHANGED <<dirs, nextId>>
    /\ UNCHANGED <<config, closed, janitor, registry, last_used_file, current_file, reset_called, clock, calls_left>>

\* the table after the insert of line 233
Inserted(s, id, now) == Put(s, id, now, now)

\* `with _lock` of another thread can be entered: no thread is inside the one
\* critical section that spans several steps, the eviction loop of _create_session
LockFree == \A u \in Procs : pc[u] # "create_evict"

\* lines 232-235: take the lock, insert, pick the sessions to evict; the lock is kept
\* while there is something to evict
CreateLock(t) ==
    /\ pc[t] = "create_lock"
    /\ LockFree
    /\ LET s1 == Inserted(_sessions, loc[t].new, loc[t].now)
           to_remove == ToRemove(s1, SESSION_MAX)
       IN /\ _sessions' = s1
          /\ IF to_remove = <<>>
             THEN Ret(t, [loc[t] EXCEPT !.list = <<>>, !.i = 0])
             ELSE /\ Upd(t, [loc[t] EXCEPT !.list = to_remove, !.i = 0])
                  /\ Goto(t, "create_evict")
    /\ UNCHANGED <<config, closed, janitor, _current_session_id, container, clock, nextId, calls_left>>

\* lines 236-241, one turn of the loop, inside the lock: remove_dir, then the entry is
\* popped by the finally clause whether remove_dir returned or raised; an exception
\* leaves the loop and _create_session
CreateEvict(t) ==
    /\ pc[t] = "create_evict"
    /\ LET sid == loc[t].list[loc[t].i + 1].id
           l == [loc[t] EXCEPT !.i = @ + 1, !.remove_dir_calls = @ \cup {sid}]
       IN /\ _sessions' = RemoveKey(_sessions, sid)
          /\ \/ /\ dirs' = dirs \ {sid}
                /\ last_used_file' = [last_used_file EXCEPT ![sid] = Absent]
                /\ IF l.i = Len(l.list)
                   THEN Ret(t, l)
                   ELSE Upd(t, l) /\ UNCHANGED <<pc, stack>>
             \/ /\ UNCHANGED <<dirs, last_used_file>>
                /\ Raise(t, l)
    /\ UNCHANGED <<config, closed, janitor, _current_session_id, current_file, reset_called, clock, nextId, calls_left>>

\* ------------------------------------------------------------- _touch
\* line 95
TouchNow(t) ==
    /\ pc[t] = "touch_now"
    /\ Upd(t, [loc[t] EXCEPT !.now = clock])
    /\ Goto(t, "touch_lock")
    /\ UNCHANGED <<config, closed, janitor, registry, container, clock, nextId, calls_left>>

\* lines 97-99 without the membership test of line 97
TouchedInserts(s, id, now) ==
    Put(s, id, now, IF Has(s, id) THEN Rec(s, id).created ELSE now)

\* the table after lines 97-99
Touched(s, id, now) ==
    IF Has(s, id) THEN Put(s, id, now, Rec(s, id).created) ELSE s

\* lines 96-99
TouchLock(t) ==
    /\ pc[t] = "touch_lock"
    /\ LockFree
    /\ _sessions' = Touched(_sessions, loc[t].arg, loc[t].now)
    /\ Goto(t, "touch_persist")
    /\ UNCHANGED <<config, closed, janitor, _current_session_id, container, clock, nextId, calls_left, loc>>

\* lines 101-108: write <dir>/.last_used; `cat > path` needs the directory
TouchPersist(t) ==
    /\ pc[t] = "touch_persist"
    /\ last_used_file' = IF loc[t].arg \in dirs
                         THEN [last_used_file EXCEPT ![loc[t].arg] = loc[t].now]
                         ELSE last_used_file
    /\ Ret(t, loc[t])
    /\ UNCHANGED <<config, closed, janitor, registry, dirs, current_file, reset_called, clock, nextId, calls_left>>

\* ------------------------------------------------------------- _remove_session
\* lines 244-245 with `del _sessions[session_id]`: KeyError for an id that is not there
RmLockStrict(t) ==
    /\ pc[t] = "rm_lock"
    /\ LockFree
    /\ IF Has(_sessions, loc[t].arg)
       THEN /\ _sessions' = RemoveKey(_sessions, loc[t].arg)
            /\ Goto(t, "rm_dir")
            /\ UNCHANGED loc
       ELSE /\ Done(t, [loc[t] EXCEPT !.raised = TRUE])
            /\ UNCHANGED _sessions
    /\ UNCHANGED <<config, closed, janitor, _current_session_id, container, clock, nextId, calls_left>>

\* lines 244-245
RmLock(t) ==
    /\ pc[t] = "rm_lock"
    /\ LockFree
    /\ _sessions' = RemoveKey(_sessions, loc[t].arg)
    /\ Goto(t, "rm_dir")
    /\ UNCHANGED <<config, closed, janitor, _current_session_id, container, clock, nextId, calls_left, loc>>

\* lines 246-250: remove_dir, a failure is swallowed
RmDir(t) ==
    /\ pc[t] = "rm_dir"
    /\ \/ /\ dirs' = dirs \ {loc[t].arg}
          /\ last_used_file' = [last_used_file EXCEPT ![loc[t].arg] = Absent]
       \/ UNCHANGED <<dirs, last_used_file>>
    /\ Ret(t, [loc[t] EXCEPT !.remove_dir_calls = @ \cup {loc[t].arg}])
    /\ UNCHANGED <<config, closed, janitor, registry, current_file, reset_called, clock, nextId, calls_left>>

\* ------------------------------------------------------------- _set_current_session
\* lines 125-127
ScMem(t) ==
    /\ pc[t] = "sc_mem"
    /\ LockFree
    /\ _current_session_id' = loc[t].arg
    /\ Goto(t, "sc_persist")
    /\ UNCHANGED <<config, closed, janitor, _sessions, container, clock, nextId, calls_left, loc>>

\* lines 128-132, _persist_current: write the marker, or rm -f it when clearing; the
\* docker call may fail and the failure is swallowed
ScPersist(t) ==
    /\ pc[t] = "sc_persist"
    /\ \/ current_file' = loc[t].arg
       \/ UNCHANGED current_file
    /\ Ret(t, loc[t])
    /\ UNCHANGED <<config, closed, janitor, registry, dirs, last_used_file, reset_called, clock, nextId, calls_left>>

\* ------------------------------------------------------------- _get_current_session
\* lines 111-114 trusting the persisted marker instead of the in-memory value
GcReadFromMarker(t) ==
    /\ pc[t] = "gc_read"
    /\ Goto(t, "load_marker")
    /\ UNCHANGED <<config, closed, janitor, registry, container, clock, nextId, calls_left, loc>>

\* lines 111-114
GcRead(t) ==
    /\ pc[t] = "gc_read"
    /\ LockFree
    /\ IF _current_session_id # NoId
       THEN Ret(t, [loc[t] EXCEPT !.cur = _current_session_id])
       ELSE Goto(t, "load_marker") /\ UNCHANGED loc
    /\ UNCHANGED <<config, closed, janitor, registry, container, clock, nextId, calls_left>>

\* _load_persisted_current lines 164-179: read the marker (a failed read gives '')
LoadMarker(t) ==
    /\ pc[t] = "load_marker"
    /\ \E sid \in {current_file, NoId} :
         IF sid = NoId
         THEN Goto(t, "gc_final") /\ UNCHANGED loc
         ELSE Goto(t, "load_ttl") /\ Upd(t, [loc[t] EXCEPT !.psid = sid])
    /\ UNCHANGED <<config, closed, janitor, registry, container, clock, nextId, calls_left>>

\* line 183
IsExpired(last_used, now_ts, ttl) == last_used # Absent /\ now_ts - last_used > ttl

\* lines 181-187: an expired marker makes _load_persisted_current create a fresh session
LoadTtl(t) ==
    /\ pc[t] = "load_ttl"
    /\ \E last_used \in ReadLastUsed(loc[t].psid) :
         /\ Upd(t, [loc[t] EXCEPT !.last_used = last_used])
         /\ IF IsExpired(last_used, clock, SESSION_TTL_SECONDS)
            THEN CallP(t, "create_mkdir", "load_set")
            ELSE Goto(t, "load_mkdir")
    /\ UNCHANGED <<config, closed, janitor, registry, container, clock, nextId, calls_left>>

\* line 186
LoadSet(t) ==
    /\ pc[t] = "load_set"
    /\ Upd(t, [loc[t] EXCEPT !.arg = loc[t].new])
    /\ CallP(t, "sc_mem", "gc_final")
    /\ UNCHANGED <<config, closed, janitor, registry, container, clock, nextId, calls_left>>

\* lines 189-192: make the directory when it is missing (a failure is caught by
\* _get_current_session, which returns None), now = time.time()
LoadMkdir(t) ==
    /\ pc[t] = "load_mkdir"
    /\ \/ /\ dirs' = dirs \cup {loc[t].psid}
          /\ Upd(t, [loc[t] EXCEPT !.now = clock])
          /\ Goto(t, "load_register")
       \/ /\ loc[t].psid \notin dirs
          /\ Ret(t, [loc[t] EXCEPT !.cur = NoId])
          /\ UNCHANGED dirs
    /\ UNCHANGED <<config, closed, janitor, registry, last_used_file, current_file, reset_called,
                   clock, nextId, calls_left>>

\* line 194 left out: the recovered session is adopted as current only
NotRegistered(s, sid, now) == s

\* the table after line 194
Registered(s, sid, now) == Put(s, sid, now, now)

\* lines 193-196
LoadRegister(t) ==
    /\ pc[t] = "load_register"
    /\ LockFree
    /\ _sessions' = Registered(_sessions, loc[t].psid, loc[t].now)
    /\ _current_session_id' = loc[t].psid
    /\ Goto(t, "gc_final")
    /\ UNCHANGED <<config, closed, janitor, container, clock, nextId, calls_left, loc>>

\* lines 121-122
GcFinal(t) ==
    /\ pc[t] = "gc_final"
    /\ LockFree
    /\ Ret(t, [loc[t] EXCEPT !.cur = _current_session_id])
    /\ UNCHANGED <<config, closed, janitor, registry, container, clock, nextId, calls_left>>

\* ------------------------------------------------------------- _SessionContext
\* __enter__ falling back to the current session for an id it does not know
EnterFallsBack(t) ==
    /\ pc[t] = "enter"
    /\ IF loc[t].user # NoId /\ Has(_sessions, loc[t].user)
       THEN /\ Upd(t, [loc[t] EXCEPT !.sid = loc[t].user, !.arg = loc[t].user])
            /\ CallP(t, "touch_now", "body")
       ELSE IF loc[t].policy = "ephemeral"
            THEN CallP(t, "create_mkdir", "enter_eph") /\ UNCHANGED loc
            ELSE IF loc[t].policy = "reuse"
                 THEN CallP(t, "gc_read", "enter_cur") /\ UNCHANGED loc
                 ELSE Raise(t, loc[t])
    /\ UNCHANGED <<config, closed, janitor, registry, container, clock, nextId, calls_left>>

\* __enter__ lines 290-312
Enter(t) ==
    /\ pc[t] = "enter"
    /\ loc[t].user # NoId => LockFree
    /\ IF loc[t].user # NoId
       THEN IF Has(_sessions, loc[t].user)
            THEN /\ Upd(t, [loc[t] EXCEPT !.sid = loc[t].user, !.arg = loc[t].user])
                 /\ CallP(t, "touch_now", "body")
            ELSE Raise(t, loc[t])
       ELSE IF loc[t].policy = "ephemeral"
            THEN CallP(t, "create_mkdir", "enter_eph") /\ UNCHANGED loc
            ELSE IF loc[t].policy = "reuse"
                 THEN CallP(t, "gc_read", "enter_cur") /\ UNCHANGED loc
                 ELSE Raise(t, loc[t])
    /\ UNCHANGED <<config, closed, janitor, registry, container, clock, nextId, calls_left>>

\* the ephemeral branch promoting its session as line 310 does
EnterEphPromotes(t) ==
    /\ pc[t] = "enter_eph"
    /\ Upd(t, [loc[t] EXCEPT !.sid = loc[t].new, !.owns = TRUE, !.arg = loc[t].new])
    /\ CallP(t, "sc_mem", "enter_touch")
    /\ UNCHANGED <<config, closed, janitor, registry, container, clock, nextId, calls_left>>

\* lines 301-302, then line 313
EnterEph(t) ==
    /\ pc[t] = "enter_eph"
    /\ Upd(t, [loc[t] EXCEPT !.sid = loc[t].new, !.owns = TRUE, !.arg = loc[t].new])
    /\ CallP(t, "touch_now", "body")
    /\ UNCHANGED <<config, closed, janitor, registry, container, clock, nextId, calls_left>>

\* lines 306-309 without the reuse: a new session whatever the current one is
EnterCurAlwaysNew(t) ==
    /\ pc[t] = "enter_cur"
    /\ CallP(t, "create_mkdir", "enter_new")
    /\ UNCHANGED <<config, closed, janitor, registry, container, clock, nextId, calls_left, loc>>

\* lines 306-309 returning the current session without line 313
EnterCurNoTouch(t) ==
    /\ pc[t] = "enter_cur"
    /\ IF loc[t].cur # NoId /\ Has(_sessions, loc[t].cur)
       THEN /\ Upd(t, [loc[t] EXCEPT !.sid = loc[t].cur, !.arg = loc[t].cur])
            /\ Goto(t, "body")
       ELSE CallP(t, "create_mkdir", "enter_new") /\ UNCHANGED loc
    /\ UNCHANGED <<config, closed, janitor, registry, container, clock, nextId, calls_left>>

\* lines 306-309 without `cur in _sessions`: the current session whenever one is set
EnterCurUnchecked(t) ==
    /\ pc[t] = "enter_cur"
    /\ IF loc[t].cur # NoId
       THEN /\ Upd(t, [loc[t] EXCEPT !.sid = loc[t].cur, !.arg = loc[t].cur])
            /\ CallP(t, "touch_now", "body")
       ELSE CallP(t, "create_mkdir", "enter_new") /\ UNCHANGED loc
    /\ UNCHANGED <<config, closed, janitor, registry, container, clock, nextId, calls_left>>

\* lines 306-309
EnterCur(t) ==
    /\ pc[t] = "enter_cur"
    /\ IF loc[t].cur # NoId /\ Has(_sessions, loc[t].cur)
       THEN /\ Upd(t, [loc[t] EXCEPT !.sid = loc[t].cur, !.arg = loc[t].cur])
            /\ CallP(t, "touch_now", "body")
       ELSE CallP(t, "create_mkdir", "enter_new") /\ UNCHANGED loc
    /\ UNCHANGED <<config, closed, janitor, registry, container, clock, nextId, calls_left>>

\* lines 309-310
EnterNew(t) ==
    /\ pc[t] = "enter_new"
    /\ Upd(t, [loc[t] EXCEPT !.sid = loc[t].new, !.arg = loc[t].new])
    /\ CallP(t, "sc_mem", "enter_touch")
    /\ UNCHANGED <<config, closed, janitor, registry, container, clock, nextId, calls_left>>

\* line 313 after create-and-promote
EnterTouch(t) ==
    /\ pc[t] = "enter_touch"
    /\ Upd(t, [loc[t] EXCEPT !.arg = loc[t].sid])
    /\ CallP(t, "touch_now", "body")
    /\ UNCHANGED <<config, closed, janitor, registry, container, clock, nextId, calls_left>>

\* the enclosed operation (interpreter.exec_code in sess.dir): it returns or raises
Body(t) ==
    /\ pc[t] = "body"
    /\ loc[t].op \notin FileOps
    /\ \E r \in BOOLEAN : Upd(t, [loc[t] EXCEPT !.body_raised = r, !.ret = loc[t].sid])
    /\ Goto(t, "exit")
    /\ UNCHANGED <<config, closed, janitor, registry, container, clock, nextId, calls_left>>

\* the body of run_file (365-366), cp_in (380-385), cp_out (393-397) and edit_file
\* (405-407): cp_in takes the basename of local_path for an empty container_path; cp_in,
\* cp_out and edit_file validate here, inside the context; the path handed to the
\* interpreter is f"{sess.dir}/{path}"; the interpreter call returns or raises
FileBody(t) ==
    /\ pc[t] = "body"
    /\ loc[t].op \in FileOps
    /\ \E container_path \in IF loc[t].op = "cp_in" /\ loc[t].path = <<>>
                              THEN Basenames ELSE {loc[t].path} :
         IF loc[t].op # "run_file" /\ ~_ensure_relative_posix(container_path)
         THEN Upd(t, [loc[t] EXCEPT !.body_raised = TRUE, !.ret = loc[t].sid])
         ELSE \E r \in BOOLEAN :
                Upd(t, [loc[t] EXCEPT !.body_raised = r, !.ret = loc[t].sid,
                                      !.passed = Append(@, [dir |-> loc[t].sid,
                                                            rel |-> container_path])])
    /\ Goto(t, "exit")
    /\ UNCHANGED <<config, closed, janitor, registry, container, clock, nextId, calls_left>>

\* __exit__ cleaning up only when the body returned
ExitOnSuccessOnly(t) ==
    /\ pc[t] = "exit"
    /\ IF loc[t].owns /\ loc[t].sid # NoId /\ ~loc[t].body_raised
       THEN /\ Upd(t, [loc[t] EXCEPT !.arg = loc[t].sid, !.raised = loc[t].body_raised])
            /\ CallP(t, "rm_lock", "done")
       ELSE Done(t, [loc[t] EXCEPT !.raised = loc[t].body_raised])
    /\ UNCHANGED <<config, closed, janitor, registry, container, clock, nextId, calls_left>>

\* __exit__ lines 316-319; the exception of the body, if any, goes on to the caller
Exit(t) ==
    /\ pc[t] = "exit"
    /\ IF loc[t].owns /\ loc[t].sid # NoId
       THEN /\ Upd(t, [loc[t] EXCEPT !.arg = loc[t].sid, !.raised = loc[t].body_raised])
            /\ CallP(t, "rm_lock", "done")
       ELSE Done(t, [loc[t] EXCEPT !.raised = loc[t].body_raised])
    /\ UNCHANGED <<config, closed, janitor, registry, container, clock, nextId, calls_left>>

\* ------------------------------------------------------------- tool handlers
\* thread t is free and a handler is called on it with frame l: at most MaxCalls
\* calls in a behaviour
Begin(t, l) ==
    /\ Idle(t)
    /\ calls_left > 0
    /\ calls_left' = calls_left - 1
    /\ Upd(t, l)
    /\ UNCHANGED <<config, closed, janitor, registry, container, clock, nextId>>

\* init lines 338-340: _create_session, then line 341 at init_set
init(t) ==
    /\ Begin(t, OpLoc("init"))
    /\ CallP(t, "create_mkdir", "init_set")

\* init returning the new session without line 341
InitSetSkipped(t) ==
    /\ pc[t] = "init_set"
    /\ Done(t, [loc[t] EXCEPT !.ret = loc[t].new])
    /\ UNCHANGED <<config, closed, janitor, registry, container, clock, nextId, calls_left>>

\* init lines 341-342: _set_current_session(sid); return sid
InitSet(t) ==
    /\ pc[t] = "init_set"
    /\ Upd(t, [loc[t] EXCEPT !.arg = loc[t].new, !.ret = loc[t].new])
    /\ CallP(t, "sc_mem", "done")
    /\ UNCHANGED <<config, closed, janitor, registry, container, clock, nextId, calls_left>>

\* _SessionContext(session_id, use_current_if_missing, ephemeral_if_missing)
SessionContext(t, op, user, policy) ==
    /\ Begin(t, [OpLoc(op) EXCEPT !.user = user, !.policy = policy])
    /\ Goto(t, "enter")

\* run_code line 348 (run_file, cp_in, cp_out and edit_file acquire the same way)
run_code(t) == SessionContext(t, "run_code", NoId, "reuse")

\* run_file line 363, before the context is entered
run_file(t) ==
    /\ \E path \in CallerPaths :
         Begin(t, [OpLoc("run_file") EXCEPT !.policy = "reuse", !.path = path])
    /\ Goto(t, "rf_validate")

\* line 363 raises, or line 364 enters the context
RunFileValidate(t) ==
    /\ pc[t] = "rf_validate"
    /\ IF _ensure_relative_posix(loc[t].path)
       THEN Goto(t, "enter") /\ UNCHANGED loc
       ELSE Done(t, [loc[t] EXCEPT !.raised = TRUE])
    /\ UNCHANGED <<config, closed, janitor, registry, container, clock, nextId, calls_left>>

\* cp_in line 379, cp_out line 392, edit_file line 404: the context is entered first
FileContext(t, op) ==
    /\ \E path \in CallerPaths :
         Begin(t, [OpLoc(op) EXCEPT !.policy = "reuse", !.path = path])
    /\ Goto(t, "enter")

cp_in(t) == FileContext(t, "cp_in")

cp_out(t) == FileContext(t, "cp_out")

edit_file(t) == FileContext(t, "edit_file")

\* DockerInterpreter.cp_in lines 134-139 and cp_out lines 144-149 on the host path in
\* loc.path: an escaping path raises before any command; run_command may fail
DockerCp(t, l) ==
    /\ pc[t] = l
    /\ LET host_path == HostResolve(loc[t].path)
       IN IF ~UnderWorkdir(host_path)
          THEN Done(t, [loc[t] EXCEPT !.raised = TRUE])
          ELSE \E r \in BOOLEAN :
                 Done(t, [loc[t] EXCEPT !.raised = r,
                                        !.cmds = Append(@, [cmd |-> "cp", host |-> host_path])])
    /\ UNCHANGED <<config, closed, janitor, registry, container, clock, nextId, calls_left>>

DockerCpIn(t) == DockerCp(t, "di_cp_in")

DockerCpOut(t) == DockerCp(t, "di_cp_out")

\* run_code_ephemeral line 355
run_code_ephemeral(t) == SessionContext(t, "run_code_ephemeral", NoId, "ephemeral")

\* _SessionContext with an explicit session id
with_session_id(t) ==
    \E id \in Ids : SessionContext(t, "with_session_id", id, "reuse")

\* _SessionContext(None, use_current_if_missing=False, ephemeral_if_missing=False)
with_session_required(t) == SessionContext(t, "with_session_required", NoId, "require")

\* close_current_session line 433
close_current_session(t) ==
    /\ Begin(t, OpLoc("close_current_session"))
    /\ CallP(t, "gc_read", "close_chk")

\* lines 434-436; ret = 0 reports "no current session", ret = S reports "closed S"
CloseChk(t) ==
    /\ pc[t] = "close_chk"
    /\ IF loc[t].cur = NoId
       THEN Done(t, loc[t])
       ELSE /\ Upd(t, [loc[t] EXCEPT !.arg = loc[t].cur, !.ret = loc[t].cur])
            /\ CallP(t, "rm_lock", "close_set")
    /\ UNCHANGED <<config, closed, janitor, registry, container, clock, nextId, calls_left>>

\* line 437, _remove_session(sid) having returned: sid is closed
CloseSet(t) ==
    /\ pc[t] = "close_set"
    /\ closed' = closed \cup {loc[t].cur}
    /\ Upd(t, [loc[t] EXCEPT !.arg = NoId])
    /\ CallP(t, "sc_mem", "done")
    /\ UNCHANGED <<config, janitor, registry, container, clock, nextId, calls_left>>

\* reset lines 420-421
reset(t) ==
    /\ reset_called < MaxResets
    /\ LockFree
    /\ Begin(t, [OpLoc("reset") EXCEPT !.list = IdsOf(_sessions), !.i = 0])
    /\ Goto(t, "reset_loop")

\* lines 422-424 without the loop: the sessions stay in the registry
ResetLoopKeepsSessions(t) ==
    /\ pc[t] = "reset_loop"
    /\ Upd(t, [loc[t] EXCEPT !.arg = NoId])
    /\ CallP(t, "sc_mem", "reset_call")
    /\ UNCHANGED <<config, closed, janitor, registry, container, clock, nextId, calls_left>>

\* lines 422-424
ResetLoop(t) ==
    /\ pc[t] = "reset_loop"
    /\ IF loc[t].i < Len(loc[t].list)
       THEN /\ Upd(t, [loc[t] EXCEPT !.arg = loc[t].list[loc[t].i + 1], !.i = @ + 1])
            /\ CallP(t, "rm_lock", "reset_loop")
       ELSE /\ Upd(t, [loc[t] EXCEPT !.arg = NoId])
            /\ CallP(t, "sc_mem", "reset_call")
    /\ UNCHANGED <<config, closed, janitor, registry, container, clock, nextId, calls_left>>

\* line 425, interpreter.reset(): the container is removed and created again
ResetCall(t) ==
    /\ pc[t] = "reset_call"
    /\ reset_called' = reset_called + 1
    /\ dirs' = {}
    /\ last_used_file' = [i \in Ids |-> Absent]
    /\ current_file' = NoId
    /\ Done(t, loc[t])
    /\ UNCHANGED <<config, closed, janitor, registry, clock, nextId, calls_left>>

\* direct calls of the registry functions
_create_session(t) ==
    /\ Begin(t, OpLoc("_create_session"))
    /\ CallP(t, "create_mkdir", "done")

_touch(t) ==
    /\ \E id \in Ids : Begin(t, [OpLoc("_touch") EXCEPT !.arg = id])
    /\ CallP(t, "touch_now", "done")

_remove_session(t) ==
    /\ \E id \in Ids : Begin(t, [OpLoc("_remove_session") EXCEPT !.arg = id])
    /\ CallP(t, "rm_lock", "done")

_get_current_session(t) ==
    /\ Begin(t, OpLoc("_get_current_session"))
    /\ CallP(t, "gc_read", "done")

\* _set_current_session(S) with S an id that _new_session_id has given out
_set_current_session(t) ==
    /\ \E id \in 1..(nextId - 1) : Begin(t, [OpLoc("_set_current_session") EXCEPT !.arg = id])
    /\ CallP(t, "sc_mem", "done")

\* the caller takes the result; the thread is free for the next call
Return(t) ==
    /\ pc[t] = "done"
    /\ pc' = [pc EXCEPT ![t] = "idle"]
    /\ Upd(t, LocInit)
    /\ UNCHANGED <<config, closed, janitor, registry, container, clock, nextId, calls_left, stack>>

\* ------------------------------------------------------------- janitor
\* _cleanup_expired lines 253-258, called from the loop of _start_janitor_once
_cleanup_expired ==
    /\ pc[Janitor] = "sleep"
    /\ janitor_threads > 0
    /\ LockFree
    /\ Upd(Janitor, [OpLoc("_cleanup_expired") EXCEPT
                       !.now = clock,
                       !.seen = _sessions,
                       !.list = Expired(_sessions, clock, SESSION_TTL_SECONDS)])
    /\ Goto(Janitor, "sweep_loop")
    /\ UNCHANGED <<config, closed, janitor, registry, container, clock, nextId, calls_left>>

\* _cleanup_expired without lines 259-260: the expired ids are collected and left
SweepLoopScansOnly ==
    /\ pc[Janitor] = "sweep_loop"
    /\ Goto(Janitor, "swept")
    /\ UNCHANGED <<config, closed, janitor, registry, container, clock, nextId, calls_left, loc>>

\* lines 259-260
SweepLoop ==
    /\ pc[Janitor] = "sweep_loop"
    /\ IF loc[Janitor].i < Len(loc[Janitor].list)
       THEN /\ Upd(Janitor, [loc[Janitor] EXCEPT !.arg = loc[Janitor].list[loc[Janitor].i + 1],
                                                 !.i = @ + 1])
            /\ CallP(Janitor, "rm_lock", "sweep_loop")
       ELSE Goto(Janitor, "swept") /\ UNCHANGED loc
    /\ UNCHANGED <<config, closed, janitor, registry, container, clock, nextId, calls_left>>

\* lines 269-272: an exception leaves _cleanup_expired between two removals and is
\* caught and dropped by the loop
SweepRaises ==
    /\ pc[Janitor] = "sweep_loop"
    /\ Upd(Janitor, [loc[Janitor] EXCEPT !.raised = TRUE])
    /\ Goto(Janitor, "swept")
    /\ UNCHANGED <<config, closed, janitor, registry, container, clock, nextId, calls_left>>

\* the loop without its try/except: an exception of the sweep ends the thread
SleepUnlessRaised ==
    /\ pc[Janitor] = "swept"
    /\ IF loc[Janitor].raised
       THEN Goto(Janitor, "terminated") /\ UNCHANGED loc
       ELSE Goto(Janitor, "sleep") /\ Upd(Janitor, LocInit)
    /\ UNCHANGED <<config, closed, janitor, registry, container, clock, nextId, calls_left>>

\* line 274, time.sleep(60): the sweep has returned and its frame is gone
Sleep ==
    /\ pc[Janitor] = "swept"
    /\ Goto(Janitor, "sleep")
    /\ Upd(Janitor, LocInit)
    /\ UNCHANGED <<config, closed, janitor, registry, container, clock, nextId, calls_left>>

\* _start_janitor_once line 262
_start_janitor_once(t) ==
    /\ Begin(t, OpLoc("_start_janitor_once"))
    /\ Goto(t, "start_check")

\* lines 264-265: read the flag, no lock is taken
StartCheck(t) ==
    /\ pc[t] = "start_check"
    /\ IF _janitor_started
       THEN Done(t, loc[t])
       ELSE Goto(t, "start_set") /\ UNCHANGED loc
    /\ UNCHANGED <<config, closed, janitor, registry, container, clock, nextId, calls_left>>

\* line 266
StartSet(t) ==
    /\ pc[t] = "start_set"
    /\ _janitor_started' = TRUE
    /\ Goto(t, "start_thread")
    /\ UNCHANGED <<config, closed, janitor_threads, registry, container, clock, nextId, calls_left, loc>>

\* lines 276-277: threading.Thread(target=_loop, daemon=True).start()
StartThread(t) ==
    /\ pc[t] = "start_thread"
    /\ janitor_threads' = janitor_threads + 1
    /\ Done(t, loc[t])
    /\ UNCHANGED <<config, closed, _janitor_started, registry, container, clock, nextId, calls_left>>

\* ------------------------------------------------------------- environment
\* time passes
Tick ==
    /\ clock < MaxTime
    /\ clock' = clock + 1
    /\ UNCHANGED <<config, closed, janitor, registry, container, nextId, calls_left, pc, stack, loc>>

\* the server process is restarted: module state is fresh, the container persists
Restart ==
    /\ _sessions' = <<>>
    /\ _current_session_id' = NoId
    /\ pc' = [t \in Procs |-> IF t = Janitor THEN "sleep" ELSE "idle"]
    /\ stack' = [t \in Procs |-> <<>>]
    /\ loc' = [t \in Procs |-> LocInit]
    /\ closed' = {}
    /\ UNCHANGED <<config, janitor, container, clock, nextId, calls_left>>

Step(t) ==
    \/ CreateMkdir(t) \/ CreateLock(t) \/ CreateEvict(t)
    \/ TouchNow(t) \/ TouchLock(t) \/ TouchPersist(t)
    \/ RmLock(t) \/ RmDir(t)
    \/ ScMem(t) \/ ScPersist(t)
    \/ GcRead(t) \/ LoadMarker(t) \/ LoadTtl(t) \/ LoadSet(t) \/ LoadMkdir(t)
    \/ LoadRegister(t) \/ GcFinal(t)
    \/ Enter(t) \/ EnterEph(t) \/ EnterCur(t) \/ EnterNew(t) \/ EnterTouch(t)
    \/ Body(t) \/ FileBody(t) \/ Exit(t) \/ RunFileValidate(t)
    \/ InitSet(t) \/ CloseChk(t) \/ CloseSet(t) \/ ResetLoop(t) \/ ResetCall(t)
    \/ Return(t)

Call(t) ==
    \/ init(t) \/ run_code(t) \/ run_code_ephemeral(t)
    \/ with_session_id(t) \/ with_session_required(t)
    \/ close_current_session(t) \/ reset(t)
    \/ _create_session(t) \/ _touch(t) \/ _remove_session(t) \/ _get_current_session(t)
    \/ _set_current_session(t)
    \/ run_file(t) \/ cp_in(t) \/ cp_out(t) \/ edit_file(t)

\* no handler and no sweep is in progress
Quiet == pc[Janitor] = "sleep" /\ \A t \in Handlers : Idle(t)

Main == 1

\* one caller: handlers and sweeps run one after the other, each to its end
Next ==
    \/ Quiet /\ Call(Main)
    \/ Step(Main)
    \/ Quiet /\ _cleanup_expired
    \/ SweepLoop \/ RmLock(Janitor) \/ RmDir(Janitor) \/ Sleep
    \/ Quiet /\ Tick
    \/ Quiet /\ Restart

Spec == Init /\ [][Next]_vars

\* ------------------------------------------------------------- scenarios of the spec
\* the instants of the TTL scenario: creation, touch, first sweep, second sweep
ScenarioTimes == {0, 500, 1050, 1150}

InitScenario ==
    /\ SESSION_MAX = 2
    /\ SESSION_TTL_SECONDS = 600
    /\ _sessions = <<>>
    /\ _current_session_id = NoId
    /\ dirs = {}
    /\ last_used_file = [i \in Ids |-> Absent]
    /\ current_file = NoId
    /\ reset_called = 0
    /\ clock = 0
    /\ nextId = 1
    /\ _janitor_started = TRUE
    /\ janitor_threads = 1
    /\ closed = {}
    /\ calls_left = ScenarioCalls
    /\ pc = [t \in Procs |-> IF t = Janitor THEN "sleep" ELSE "idle"]
    /\ stack = [t \in Procs |-> <<>>]
    /\ loc = [t \in Procs |-> LocInit]

\* time moves on to a later instant of the scenario
Advance ==
    /\ \E later \in ScenarioTimes : later > clock /\ clock' = later
    /\ UNCHANGED <<config, closed, janitor, registry, container, nextId, calls_left, pc, stack, loc>>

\* create, touch and sweep only, one after the other
NextScenario ==
    \/ Quiet /\ _create_session(Main)
    \/ Quiet /\ _touch(Main)
    \/ CreateMkdir(Main) \/ CreateLock(Main) \/ CreateEvict(Main)
    \/ TouchNow(Main) \/ TouchLock(Main) \/ TouchPersist(Main)
    \/ Return(Main)
    \/ Quiet /\ _cleanup_expired
    \/ SweepLoop \/ RmLock(Janitor) \/ RmDir(Janitor) \/ Sleep
    \/ Quiet /\ Advance

SpecScenario == InitScenario /\ [][NextScenario]_vars

\* ------------------------------------------------------------- the path checks alone
\* one call of a path check on any path of up to MaxPathLen characters
PathChecks == {"rf_validate", "di_cp_in", "di_cp_out"}

PathOp(l) ==
    IF l = "rf_validate" THEN "run_file"
    ELSE IF l = "di_cp_in" THEN "DockerInterpreter.cp_in" ELSE "DockerInterpreter.cp_out"

InitPath ==
    /\ SESSION_MAX = 1
    /\ SESSION_TTL_SECONDS = 1
    /\ _sessions = <<>>
    /\ _current_session_id = NoId
    /\ dirs = {}
    /\ last_used_file = [i \in Ids |-> Absent]
    /\ current_file = NoId
    /\ reset_called = 0
    /\ clock = 1
    /\ nextId = 1
    /\ _janitor_started = TRUE
    /\ janitor_threads = 1
    /\ closed = {}
    /\ calls_left = 0
    /\ stack = [t \in Procs |-> <<>>]
    /\ \E l \in PathChecks, path \in AllPaths :
         /\ pc = [t \in Procs |-> IF t = Janitor THEN "sleep" ELSE IF t = Main THEN l ELSE "idle"]
         /\ loc = [t \in Procs |->
                     IF t = Main
                     THEN [OpLoc(PathOp(l)) EXCEPT !.policy = "reuse", !.path = path]
                     ELSE LocInit]

NextPath ==
    \/ RunFileValidate(Main)
    \/ DockerCpIn(Main)
    \/ DockerCpOut(Main)
    \/ Return(Main)

SpecPath == InitPath /\ [][NextPath]_vars

\* ------------------------------------------------------------- concurrent handlers
\* the transport dispatches calls on NumThreads threads at once; the janitor sweeps and
\* time passes at any moment; the calls made are create, touch and reset
ConcCall(t) ==
    \/ _create_session(t) \/ _touch(t) \/ reset(t)

ConcStep(t) ==
    \/ CreateMkdir(t) \/ CreateLock(t) \/ CreateEvict(t)
    \/ TouchNow(t) \/ TouchLock(t) \/ TouchPersist(t)
    \/ RmLock(t) \/ RmDir(t)
    \/ ResetLoop(t) \/ ScMem(t) \/ ScPersist(t) \/ ResetCall(t)
    \/ Return(t)

NextConc ==
    \/ \E t \in Handlers : ConcCall(t) \/ ConcStep(t)
    \/ _cleanup_expired
    \/ SweepLoop \/ RmLock(Janitor) \/ RmDir(Janitor) \/ Sleep
    \/ Tick

SpecConc == Init /\ [][NextConc]_vars

\* ------------------------------------------------------------- the janitor loop
\* the janitor thread next to one handler thread that creates and touches sessions;
\* a sweep may raise
JanitorStep ==
    \/ _cleanup_expired
    \/ SweepLoop \/ RmLock(Janitor) \/ RmDir(Janitor)
    \/ Sleep

HandlerStep ==
    \/ CreateMkdir(Main) \/ CreateLock(Main) \/ CreateEvict(Main)
    \/ TouchNow(Main) \/ TouchLock(Main) \/ TouchPersist(Main)
    \/ Return(Main)

NextLoop ==
    \/ _create_session(Main) \/ _touch(Main)
    \/ HandlerStep
    \/ JanitorStep
    \/ SweepRaises
    \/ Tick

\* the scheduler runs every thread that can run: time.sleep returns, the janitor gets
\* the lock once the handler has left its critical section
SpecLoop == Init /\ [][NextLoop]_vars /\ WF_vars(JanitorStep) /\ WF_vars(HandlerStep)

\* the same threads with sweeps as the code runs them: _remove_session swallows the
\* failure of remove_dir (246-250), so nothing raises inside _cleanup_expired
NextSweep ==
    \/ _create_session(Main) \/ _touch(Main)
    \/ HandlerStep
    \/ JanitorStep
    \/ Tick

SpecSweep == Init /\ [][NextSweep]_vars /\ WF_vars(JanitorStep) /\ WF_vars(HandlerStep)

\* ------------------------------------------------------------- starting the janitor
\* the module before line 279 has run: any thread may call _start_janitor_once, at any
\* time; a started loop sweeps
InitStart ==
    /\ SESSION_MAX = 1
    /\ SESSION_TTL_SECONDS = 1
    /\ _sessions = <<>>
    /\ _current_session_id = NoId
    /\ dirs = {}
    /\ last_used_file = [i \in Ids |-> Absent]
    /\ current_file = NoId
    /\ reset_called = 0
    /\ clock = 1
    /\ nextId = 1
    /\ _janitor_started = FALSE
    /\ janitor_threads = 0
    /\ closed = {}
    /\ calls_left = MaxCalls
    /\ pc = [t \in Procs |-> IF t = Janitor THEN "sleep" ELSE "idle"]
    /\ stack = [t \in Procs |-> <<>>]
    /\ loc = [t \in Procs |-> LocInit]

NextStart ==
    \/ \E t \in Handlers :
         \/ _start_janitor_once(t)
         \/ StartCheck(t) \/ StartSet(t) \/ StartThread(t)
         \/ Return(t)
    \/ _cleanup_expired \/ SweepLoop \/ Sleep
    \/ Tick

SpecStart == InitStart /\ [][NextStart]_vars

\* ------------------------------------------------------------- properties
\* _create_session has just returned to thread t
AfterCreate(t) ==
    \/ pc[t] \in {"init_set", "enter_eph", "enter_new", "load_set"}
    \/ Returned(t, "_create_session")

\* C1: immediately after every _create_session returns, the registry holds at most
\* SESSION_MAX entries.
C1_CapacityAfterCreate ==
    \A t \in Handlers : AfterCreate(t) => Len(_sessions) <= SESSION_MAX

\* a create has returned after evicting, and the registry is exactly full
C1_Witness ==
    \E t \in Handlers :
        /\ Returned(t, "_create_session")
        /\ loc[t].list # <<>>
        /\ Len(_sessions) = SESSION_MAX

\* C2: after any handler has completed, also one that re-registered a persisted
\* session through _load_persisted_current, the registry holds at most SESSION_MAX
\* entries.
C2_CapacityAfterEveryOperation ==
    \A t \in Handlers : pc[t] = "done" => Len(_sessions) <= SESSION_MAX

\* C3: when _create_session returns, the records it evicted are exactly the excess over
\* SESSION_MAX and none of them was used more recently than a record it kept; a touch
\* counts as a use.
C3_EvictsLeastRecentlyUsed ==
    \A t \in Handlers :
        AfterCreate(t) =>
            LET evicted == loc[t].list
            IN /\ Len(evicted) = Excess(Len(evicted) + Len(_sessions), SESSION_MAX)
               /\ Keys(evicted) \cap Keys(_sessions) = {}
               /\ \A i \in DOMAIN evicted : \A j \in DOMAIN _sessions :
                    evicted[i].last <= _sessions[j].last

\* SESSION_MAX = 2: A = 1 and B = 2 created, A touched later, C = 3 created: B is
\* evicted although A is the older session, and the registry is {A, C}
C3_Witness ==
    /\ SESSION_MAX = 2
    /\ Returned(Main, "_create_session")
    /\ loc[Main].new = 3
    /\ IdsOf(loc[Main].list) = <<2>>
    /\ Keys(_sessions) = {1, 3}
    /\ Rec(_sessions, 1).created <= loc[Main].list[1].created
    /\ Rec(_sessions, 1).last > loc[Main].list[1].last

\* C4: a sweep that ran alone leaves exactly the records it saw with
\* now - last_used <= SESSION_TTL_SECONDS, unchanged and in their order.
C4_SweepRemovesExactlyExpired ==
    pc[Janitor] = "swept" =>
        LET Kept(r) == loc[Janitor].now - r.last <= SESSION_TTL_SECONDS
        IN _sessions = SelectSeq(loc[Janitor].seen, Kept)

\* a sweep removed a record and kept one whose idle time is exactly the TTL
C4_Witness ==
    /\ pc[Janitor] = "swept"
    /\ \E i \in DOMAIN loc[Janitor].seen :
        /\ loc[Janitor].now - loc[Janitor].seen[i].last = SESSION_TTL_SECONDS
        /\ Has(_sessions, loc[Janitor].seen[i].id)
    /\ \E i \in DOMAIN loc[Janitor].seen : ~Has(_sessions, loc[Janitor].seen[i].id)

\* C5: with TTL = 600, a session created at 0 and touched at 500 is kept by the sweep
\* at 1050 and removed by the sweep at 1150.
C5_ExpiryCountsFromLastTouch ==
    (pc[Janitor] = "swept" /\ SESSION_TTL_SECONDS = 600) =>
        \A i \in DOMAIN loc[Janitor].seen :
            LET r == loc[Janitor].seen[i]
            IN (r.created = 0 /\ r.last = 500) =>
                /\ loc[Janitor].now = 1050 => Has(_sessions, r.id)
                /\ loc[Janitor].now = 1150 => ~Has(_sessions, r.id)

\* the sweep at 1050 has kept the session created at 0 and touched at 500
C5_Witness ==
    /\ pc[Janitor] = "swept"
    /\ SESSION_TTL_SECONDS = 600
    /\ loc[Janitor].now = 1050
    /\ \E i \in DOMAIN loc[Janitor].seen :
        /\ loc[Janitor].seen[i].created = 0
        /\ loc[Janitor].seen[i].last = 500
        /\ Has(_sessions, loc[Janitor].seen[i].id)

\* C6: once the scope of an ephemeral _SessionContext has exited, its session is not in
\* the registry and the removal of its directory has been requested, whether the
\* enclosed operation returned or raised.
C6_EphemeralReleased ==
    \A t \in Handlers :
        (pc[t] = "done" /\ loc[t].op = "run_code_ephemeral" /\ loc[t].sid # NoId) =>
            /\ ~Has(_sessions, loc[t].sid)
            /\ loc[t].sid \in loc[t].remove_dir_calls

\* the enclosed operation raised and the ephemeral session has been released
C6_Witness ==
    \E t \in Handlers :
        /\ Raised(t, "run_code_ephemeral")
        /\ loc[t].body_raised
        /\ loc[t].owns
        /\ ~Has(_sessions, loc[t].sid)
        /\ loc[t].sid \in loc[t].remove_dir_calls

\* C7: no step of run_code_ephemeral changes the current-session pointer or its
\* persisted marker, so _get_current_session answers after the call as before it, and
\* the session run_code_ephemeral uses is not the current one.
C7_EphemeralKeepsCurrent ==
    [][\A t \in Handlers :
         (loc[t].op = "run_code_ephemeral" \/ loc'[t].op = "run_code_ephemeral") =>
            /\ _current_session_id' = _current_session_id
            /\ current_file' = current_file
            /\ loc'[t].sid # NoId => loc'[t].sid # _current_session_id']_vars

\* run_code_ephemeral has returned while a current session is set
C7_Witness ==
    \E t \in Handlers :
        /\ Returned(t, "run_code_ephemeral")
        /\ _current_session_id # NoId
        /\ loc[t].ret # NoId
        /\ loc[t].ret # _current_session_id

\* a _SessionContext is about to resolve and cannot: its id is not in the registry, or
\* it has no id under the policy that requires one
CannotResolve(t) ==
    /\ pc[t] = "enter"
    /\ \/ loc[t].user # NoId /\ ~Has(_sessions, loc[t].user)
       \/ loc[t].user = NoId /\ loc[t].policy = "require"

\* C8: a resolution that cannot succeed raises and changes neither the registry nor the
\* current-session pointer, and creates no session and no directory.
C8_FailedResolutionChangesNothing ==
    [][\A t \in Handlers :
         CannotResolve(t) =>
            /\ pc'[t] = "done" /\ loc'[t].raised
            /\ UNCHANGED <<_sessions, _current_session_id, dirs, last_used_file,
                           current_file, nextId>>]_vars

\* a _SessionContext given an id that is not in the registry has raised
C8_Witness ==
    \E t \in Handlers :
        /\ Raised(t, "with_session_id")
        /\ loc[t].sid = NoId
        /\ ~Has(_sessions, loc[t].user)
        /\ _sessions # <<>>

\* C9 as claimed: whenever a current session is set, run_code resolves to it.
C9_ReusesCurrentWheneverSet ==
    \A t \in Handlers :
        (Returned(t, "run_code") /\ loc[t].cur # NoId) => loc[t].sid = loc[t].cur

\* C9 amended: run_code resolves to a registered session that is the current one when
\* it returns; it is the session _get_current_session gave whenever that session is
\* in the registry.
C9_ReusesRegisteredCurrent ==
    \A t \in Handlers :
        Returned(t, "run_code") =>
            /\ loc[t].sid # NoId
            /\ loc[t].sid = _current_session_id
            /\ Has(_sessions, loc[t].sid)
            /\ (loc[t].cur # NoId /\ Has(_sessions, loc[t].cur)) => loc[t].sid = loc[t].cur

\* run_code has run in the session that was current when it was called
C9_Witness ==
    \E t \in Handlers :
        /\ Returned(t, "run_code")
        /\ loc[t].cur # NoId
        /\ loc[t].sid = loc[t].cur
        /\ loc[t].new = NoId

\* C10: when init returns S, S is a new id, S is in the registry, its directory exists
\* and S is the current session.
C10_InitCreatesCurrent ==
    \A t \in Handlers :
        Returned(t, "init") =>
            /\ loc[t].ret # NoId
            /\ loc[t].ret = nextId - 1
            /\ Has(_sessions, loc[t].ret)
            /\ loc[t].ret \in dirs
            /\ _current_session_id = loc[t].ret

\* init has returned a session that replaces an earlier one still in the registry
C10_Witness ==
    \E t \in Handlers :
        /\ Returned(t, "init")
        /\ _current_session_id = loc[t].ret
        /\ Has(_sessions, loc[t].ret)
        /\ Len(_sessions) = 2

\* C11: once _set_current_session(S) has returned, S is the in-memory current session
\* whether or not the marker was written, and a _get_current_session that finds the
\* in-memory value set returns that value and changes nothing.
C11_SetThenGetInProcess ==
    [][\A t \in Handlers :
         /\ (pc'[t] = "done" /\ loc'[t].op = "_set_current_session") =>
                _current_session_id' = loc'[t].arg
         /\ (pc[t] = "gc_read" /\ _current_session_id # NoId) =>
                /\ loc'[t].cur = _current_session_id
                /\ pc'[t] = Head(stack[t])
                /\ UNCHANGED <<registry, container>>]_vars

\* _get_current_session has returned S in a process whose marker does not name S
C11_Witness ==
    \E t \in Handlers :
        /\ Returned(t, "_get_current_session")
        /\ loc[t].cur # NoId
        /\ loc[t].cur = _current_session_id
        /\ loc[t].psid = NoId
        /\ current_file # loc[t].cur

\* C12: when _get_current_session finds the in-memory pointer unset, reads a marker
\* naming S, and reads for S a last-used time within the TTL, it returns S, and S is in
\* the registry and is the current session.
C12_RecoversAfterRestart ==
    \A t \in Handlers :
        ( /\ Returned(t, "_get_current_session")
          /\ loc[t].psid # NoId
          /\ loc[t].last_used # Absent
          /\ ~IsExpired(loc[t].last_used, clock, SESSION_TTL_SECONDS) ) =>
            /\ loc[t].cur = loc[t].psid
            /\ Has(_sessions, loc[t].psid)
            /\ _current_session_id = loc[t].psid

\* _get_current_session has recovered S into a registry that held nothing
C12_Witness ==
    \E t \in Handlers :
        /\ Returned(t, "_get_current_session")
        /\ loc[t].psid # NoId
        /\ loc[t].last_used # Absent
        /\ loc[t].cur = loc[t].psid
        /\ IdsOf(_sessions) = <<loc[t].psid>>
        /\ loc[t].psid \in dirs

\* C13: when _get_current_session reads a marker naming S and a last-used time of S
\* older than the TTL, it returns no session, creates none and leaves the pointer unset.
C13_ExpiredMarkerFallsToUnset ==
    \A t \in Handlers :
        ( /\ Returned(t, "_get_current_session")
          /\ loc[t].psid # NoId
          /\ IsExpired(loc[t].last_used, clock, SESSION_TTL_SECONDS) ) =>
            /\ loc[t].cur = NoId
            /\ loc[t].new = NoId
            /\ _current_session_id = NoId

\* C14: when close_current_session returns after _get_current_session gave S, it
\* reports S, S is not in the registry, the pointer is unset and no marker is left from
\* which the next _get_current_session would recover a session; when
\* _get_current_session gave no session it reports none, has created no session, has
\* asked for no directory removal and the pointer is unset.
C14_CloseClearsCurrent ==
    \A t \in Handlers :
        Returned(t, "close_current_session") =>
            IF loc[t].cur # NoId
            THEN /\ loc[t].ret = loc[t].cur
                 /\ ~Has(_sessions, loc[t].cur)
                 /\ _current_session_id = NoId
                 /\ current_file = NoId
            ELSE /\ loc[t].ret = NoId
                 /\ loc[t].new = NoId
                 /\ loc[t].remove_dir_calls = {}
                 /\ _current_session_id = NoId

\* C15: reset invokes the reset of the execution environment in exactly one of its
\* steps, the last one, and when it returns the registry is empty and the
\* current-session pointer is unset.
C15_ResetClearsEverything ==
    [][\A t \in Handlers :
         (loc[t].op = "reset" \/ loc'[t].op = "reset") =>
            /\ reset_called' = IF pc[t] = "reset_call" THEN reset_called + 1 ELSE reset_called
            /\ (pc'[t] = "done" /\ pc[t] # "done") =>
                  /\ pc[t] = "reset_call"
                  /\ ~loc'[t].raised
                  /\ _sessions' = <<>>
                  /\ _current_session_id' = NoId]_vars

\* reset has returned after removing at least one session
C15_Witness ==
    \E t \in Handlers :
        /\ Returned(t, "reset")
        /\ loc[t].list # <<>>
        /\ _sessions = <<>>
        /\ _current_session_id = NoId
        /\ reset_called = 1

\* the string has a segment that is exactly '..'
HasDotDotSegment(path) ==
    \E i \in 1..(Len(path) - 1) :
        /\ path[i] = "." /\ path[i + 1] = "."
        /\ (i = 1 \/ path[i - 1] = "/")
        /\ (i + 1 = Len(path) \/ path[i + 2] = "/")

\* C16: the container-path check lets a path through exactly when the path does not
\* start with '/' and has no '..' segment; the empty path and 'a/a/a' get through.
C16_RelativePathCheck ==
    \A t \in Handlers :
        (loc[t].op = "run_file" /\ pc[t] \in {"enter", "done"}) =>
            ( pc[t] = "enter" <=>
                 /\ (loc[t].path = <<>> \/ loc[t].path[1] # "/")
                 /\ ~HasDotDotSegment(loc[t].path) )

\* the check has let the three-level relative path 'a/a/a' through
C16_Witness ==
    /\ pc[Main] = "enter"
    /\ loc[Main].op = "run_file"
    /\ loc[Main].path = <<"a", "/", "a", "/", "a">>

\* the resolved host path p is the directory root or lies below it
AtOrBelow(p, root) == Len(root) <= Len(p) /\ SubSeq(p, 1, Len(root)) = root

\* C17: DockerInterpreter.cp_in and cp_out issue their one copy command, on the
\* resolved host path, when that path is host_workdir or below it; for any other path
\* they raise and issue no command.
C17_HostCopyStaysUnderWorkdir ==
    \A t \in Handlers :
        (pc[t] = "done" /\ loc[t].op \in {"DockerInterpreter.cp_in", "DockerInterpreter.cp_out"}) =>
            IF AtOrBelow(HostResolve(loc[t].path), host_workdir)
            THEN loc[t].cmds = <<[cmd |-> "cp", host |-> HostResolve(loc[t].path)]>>
            ELSE loc[t].raised /\ loc[t].cmds = <<>>

\* cp_in has raised for '../aa', which resolves to /aa, a sibling of host_workdir
C17_Witness ==
    /\ Raised(Main, "DockerInterpreter.cp_in")
    /\ loc[Main].path = <<".", ".", "/", "a", "a">>
    /\ loc[Main].cmds = <<>>

\* C18: no step of run_file, cp_in, cp_out or edit_file called with a container path
\* that fails validation changes the registry, the current-session pointer or the
\* session directories.
C18_RejectedPathChangesNothing ==
    [][\A t \in Handlers :
         (loc'[t].op \in FileOps /\ ~_ensure_relative_posix(loc'[t].path)) =>
            UNCHANGED <<_sessions, _current_session_id, dirs>>]_vars

\* walking the segments from a directory at the given depth below it never leaves it
RECURSIVE NeverAbove(_, _)
NeverAbove(segs, depth) ==
    IF segs = <<>> THEN TRUE
    ELSE IF Head(segs) = DotDot
         THEN depth > 0 /\ NeverAbove(Tail(segs), depth - 1)
         ELSE IF Head(segs) \in {<<>>, <<".">>}
              THEN NeverAbove(Tail(segs), depth)
              ELSE NeverAbove(Tail(segs), depth + 1)

\* C19: every container path a file handler hands to the interpreter is the directory
\* of the session the context resolved to, followed by a path that passed the check
\* and that never climbs above that directory.
C19_FilePathsStayInSession ==
    \A t \in Handlers :
        \A i \in DOMAIN loc[t].passed :
            /\ loc[t].sid # NoId
            /\ loc[t].passed[i].dir = loc[t].sid
            /\ _ensure_relative_posix(loc[t].passed[i].rel)
            /\ NeverAbove(Split(loc[t].passed[i].rel), 0)

\* edit_file has written 'a' in the current session while another session exists
C19_Witness ==
    /\ Returned(Main, "edit_file")
    /\ loc[Main].passed = <<[dir |-> loc[Main].sid, rel |-> <<"a">>]>>
    /\ loc[Main].sid = _current_session_id
    /\ Len(_sessions) = 2

\* C20: a handler whose only collaborator calls after directory creation are directory
\* removals (create, init, remove, close, reset) and that has asked for a removal
\* returns normally with none of the sessions it removed left in the registry, and so
\* does the sweep.
C20_RemovalFailureNeverSurfaces ==
    /\ \A t \in Handlers :
         ( /\ pc[t] = "done"
           /\ loc[t].op \in {"_create_session", "init", "_remove_session",
                             "close_current_session", "reset"}
           /\ loc[t].remove_dir_calls # {} ) =>
             /\ ~loc[t].raised
             /\ loc[t].remove_dir_calls \cap Keys(_sessions) = {}
    /\ pc[Janitor] = "swept" =>
         /\ SeqToSet(loc[Janitor].list) = loc[Janitor].remove_dir_calls
         /\ loc[Janitor].remove_dir_calls \cap Keys(_sessions) = {}

\* C21: when make_dir fails in _create_session, the registry, the directories and the
\* pointer stay as they were and the exception leaves _create_session: the handler
\* fails, or _get_current_session, which catches it, returns no session.
C21_FailedMkdirLeavesNoEntry ==
    [][\A t \in Handlers :
         (pc[t] = "create_mkdir" /\ pc'[t] # "create_mkdir" /\ pc'[t] # "create_lock") =>
            /\ UNCHANGED <<_sessions, _current_session_id, dirs, nextId>>
            /\ \/ Head(stack[t]) # "load_set" /\ pc'[t] = "done" /\ loc'[t].raised
               \/ /\ Head(stack[t]) = "load_set"
                  /\ pc'[t] = stack[t][2]
                  /\ ~loc'[t].raised
                  /\ loc'[t].cur = NoId]_vars

\* init has failed on make_dir with an earlier session in the registry
C21_Witness ==
    \E t \in Handlers :
        /\ Raised(t, "init")
        /\ loc[t].new = NoId
        /\ _sessions # <<>>

C22_RegistryBackedByDirectories == Keys(_sessions) \subseteq dirs

\* C23: the sweep takes out of the registry only records that are expired when it
\* takes them out: a record whose last_used a touch has moved to within the TTL of
\* the sweep's time is left in.
C23_SweepKeepsTouchedSession ==
    [][(pc[Janitor] = "rm_lock" /\ Has(_sessions, loc[Janitor].arg)
          /\ ~Has(_sessions', loc[Janitor].arg)) =>
       loc[Janitor].now - Rec(_sessions, loc[Janitor].arg).last > SESSION_TTL_SECONDS]_vars

\* thread t is inside a `with _lock` block that spans more than one step
HoldsLock(t) == pc[t] = "create_evict"

\* the next step of thread t calls the interpreter: make_dir, remove_dir, write_file,
\* read_file, run_command, reset, or the operation of a tool handler
CallsInterpreterNext(t) ==
    pc[t] \in {"create_mkdir", "create_evict", "touch_persist", "rm_dir", "sc_persist",
               "load_marker", "load_ttl", "load_mkdir", "reset_call", "body"}

\* C24: no thread calls the interpreter while it holds the registry lock.
C24_NoInterpreterCallUnderLock ==
    \A t \in Procs : ~(HoldsLock(t) /\ CallsInterpreterNext(t))

\* C26: whenever a sweep has ended, by returning or by raising, the janitor loop goes
\* on to sleep and then starts another sweep.
C26_JanitorLoopGoesOn ==
    (pc[Janitor] = "swept") ~> (pc[Janitor] = "sweep_loop")

\* a sweep has ended by raising, after it had removed a session
C26_Witness ==
    /\ pc[Janitor] = "swept"
    /\ loc[Janitor].raised
    /\ loc[Janitor].remove_dir_calls # {}

\* C27: no step of _remove_session(id) touches an entry other than that of id, inserts
\* an entry, moves the pointer or removes another directory; when id has neither an
\* entry nor a directory, as after a first call that succeeded, no step changes
\* anything; and it returns without raising, with id out of the registry and the
\* removal of its directory requested.
C27_RemoveIsIdempotent ==
    [][\A t \in Handlers :
         loc'[t].op = "_remove_session" =>
            LET id == loc'[t].arg
                Other(r) == r.id # id
            IN /\ SelectSeq(_sessions', Other) = SelectSeq(_sessions, Other)
               /\ Keys(_sessions') \subseteq Keys(_sessions)
               /\ _current_session_id' = _current_session_id
               /\ dirs' \in {dirs, dirs \ {id}}
               /\ (~Has(_sessions, id) /\ id \notin dirs) => UNCHANGED <<registry, container>>
               /\ pc'[t] = "done" =>
                     /\ ~loc'[t].raised
                     /\ ~Has(_sessions', id)
                     /\ id \in loc'[t].remove_dir_calls]_vars

\* _remove_session has returned for an id that was never given out, with another
\* session in the registry
C27_Witness ==
    \E t \in Handlers :
        /\ Returned(t, "_remove_session")
        /\ loc[t].arg >= nextId
        /\ loc[t].arg \in loc[t].remove_dir_calls
        /\ _sessions # <<>>

\* C28: no step of _touch(id) adds, removes or moves an entry of the registry or
\* changes the record of another id; the one change it makes is to set last_used of
\* the record of id, when there is one, to the time it read, the current time,
\* keeping created.
C28_TouchChangesOneTimestamp ==
    [][\A t \in Handlers :
         loc'[t].op = "_touch" =>
            /\ Len(_sessions') = Len(_sessions)
            /\ _current_session_id' = _current_session_id
            /\ \A i \in DOMAIN _sessions :
                  /\ _sessions'[i].id = _sessions[i].id
                  /\ _sessions'[i].created = _sessions[i].created
                  /\ IF pc[t] = "touch_lock" /\ _sessions[i].id = loc[t].arg
                     THEN _sessions'[i].last = loc[t].now /\ loc[t].now = clock
                     ELSE _sessions'[i].last = _sessions[i].last]_vars

\* _touch has returned after moving last_used of one of two sessions past its created
C28_Witness ==
    \E t \in Handlers :
        /\ Returned(t, "_touch")
        /\ Has(_sessions, loc[t].arg)
        /\ Rec(_sessions, loc[t].arg).last = loc[t].now
        /\ Rec(_sessions, loc[t].arg).created < loc[t].now
        /\ Len(_sessions) = 2

\* C29: when __enter__ has returned the context, whatever the policy, the resolved
\* session is in the registry and its last_used is the time of the resolution.
C29_ResolutionTouches ==
    \A t \in Handlers :
        pc[t] = "body" =>
            /\ Has(_sessions, loc[t].sid)
            /\ Rec(_sessions, loc[t].sid).last = clock

\* a context given an explicit id has resolved to a session created earlier
C29_Witness ==
    \E t \in Handlers :
        /\ pc[t] = "body"
        /\ loc[t].op = "with_session_id"
        /\ Has(_sessions, loc[t].sid)
        /\ Rec(_sessions, loc[t].sid).created < clock
        /\ Rec(_sessions, loc[t].sid).last = clock

\* C30: at the step in which _create_session returns an id, that id is in the registry.
C30_CreatedSessionIsRegistered ==
    [][\A t \in Handlers :
         ( /\ loc[t].op = "_create_session"
           /\ pc[t] \in {"create_lock", "create_evict"}
           /\ pc'[t] = "done"
           /\ ~loc'[t].raised ) =>
             Has(_sessions', loc'[t].new)]_vars

\* C31: when __enter__ has resolved a session under the reuse-current policy, that
\* session is in the registry; and if _get_current_session gave an id that is not in
\* the registry, the resolved session is the one created in this call, with its
\* directory, and it is the current session.
C31_ReuseNeverResolvesRemoved ==
    \A t \in Handlers :
        (pc[t] = "body" /\ loc[t].user = NoId /\ loc[t].policy = "reuse") =>
            /\ loc[t].sid # NoId
            /\ Has(_sessions, loc[t].sid)
            /\ (loc[t].cur # NoId /\ ~Has(_sessions, loc[t].cur)) =>
                   /\ loc[t].sid = loc[t].new
                   /\ loc[t].sid # loc[t].cur
                   /\ loc[t].sid \in dirs
                   /\ _current_session_id = loc[t].sid

\* the current pointer named a session that is gone, directory included, and the
\* context has resolved to a session it created
C31_Witness ==
    \E t \in Handlers :
        /\ pc[t] = "body"
        /\ loc[t].user = NoId
        /\ loc[t].policy = "reuse"
        /\ loc[t].cur # NoId
        /\ ~Has(_sessions, loc[t].cur)
        /\ loc[t].cur \notin dirs
        /\ loc[t].sid = loc[t].new
        /\ _current_session_id = loc[t].sid

\* the positions of _get_current_session and of _load_persisted_current
InGetCurrent(t) ==
    pc[t] \in {"gc_read", "load_marker", "load_ttl", "load_set", "load_mkdir",
               "load_register", "gc_final"}

\* C32: no step of _get_current_session puts a session that close_current_session has
\* closed in this process back into the registry, or makes it the current session.
C32_ClosedSessionStaysClosed ==
    [][\A t \in Handlers :
         InGetCurrent(t) =>
             \A S \in closed :
                 /\ Has(_sessions', S) => Has(_sessions, S)
                 /\ _current_session_id' = S => _current_session_id = S]_vars

\* C33: a session that is in the registry with a last_used more than
\* SESSION_TTL_SECONDS in the past is eventually out of the registry, or touched.
C33_IdleSessionEventuallyRemoved ==
    \A id \in Ids : \A l \in Time :
        ( /\ Has(_sessions, id)
          /\ Rec(_sessions, id).last = l
          /\ clock - l > SESSION_TTL_SECONDS )
        ~> (~Has(_sessions, id) \/ Rec(_sessions, id).last # l)

\* the sweep has popped a session that its scan found idle for more than the TTL
C33_Witness ==
    /\ pc[Janitor] = "rm_dir"
    /\ Has(loc[Janitor].seen, loc[Janitor].arg)
    /\ loc[Janitor].now - Rec(loc[Janitor].seen, loc[Janitor].arg).last > SESSION_TTL_SECONDS
    /\ ~Has(_sessions, loc[Janitor].arg)

====
